---- MODULE Spec2Model ----
(***************************************************************************)
(* Wall sketching engine of 2-two/construct: the drawing session of        *)
(* DrawingPlane.tsx (snapping, intersection test, angle check, append and  *)
(* T-junction split) and the undo/redo history of CadViewport.tsx.         *)
(*                                                                         *)
(* Lengths are integers counted in units of 0.125 world units, half a grid *)
(* cell, so GRID_SIZE (0.25) is 2 and SNAP_RADIUS (0.5) is 4.  A plane     *)
(* point is <<x, z>>; the vertical coordinate is 0 on the drawing plane    *)
(* and is passed through by every function, so it is left out.  Quotients  *)
(* the code computes in floating point (t, u, the crossing point, the      *)
(* cosine) are kept as exact fractions.                                    *)
(***************************************************************************)
EXTENDS Integers, Sequences, FiniteSets

\* ---------------------------------------------------------------- bounds
\* Spec: crypto.randomUUID() is drawn at most MaxUuid times in a run, and the
\* undo stack holds at most MaxHistory snapshots.
MaxUuid == 3
MaxHistory == 3
\* SpecJunction: events handled in a run.
MaxSteps == 7
\* SpecCrossing: events handled in a run.
MaxCrossingSteps == 7
\* SpecSnap: events handled in a run.
MaxSnapSteps == 6
\* SpecNearest: events handled in a run.
MaxNearestSteps == 7

\* ------------------------------------------------------- program constants
SNAP_RADIUS == 4
GRID_SIZE == 2
\* cos^2 of MIN_ANGLE_RAD (30 degrees) is 3/4; an angle is <<sgn, num, den>>,
\* standing for the angle whose cosine is sgn * sqrt(num / den).
MIN_ANGLE_RAD == <<1, 3, 4>>
\* 1e-6, the epsilon of segmentsIntersectionPoint2DWithT, is 1 / EpsInv.
EpsInv == 1000000
\* Squared model units in one squared world unit (1 / 0.125)^2.
UnitSq == (4 * GRID_SIZE) * (4 * GRID_SIZE)

\* null of a Point3 | null or number | null state; null of selectedId.
Null == <<>>
NoId == 0

\* ------------------------------------------------------------ arithmetic
Abs(n) == IF n < 0 THEN -n ELSE n
Sgn(n) == IF n < 0 THEN -1 ELSE IF n > 0 THEN 1 ELSE 0

RECURSIVE Gcd(_, _)
Gcd(a, b) == IF b = 0 THEN a ELSE Gcd(b, a % b)

\* Math.round(n / d) for d > 0: the nearest integer, halves towards +infinity.
MathRound(n, d) == (2 * n + d) \div (2 * d)

\* snapToGrid on one coordinate given as the fraction n / d, d > 0.
SnapCoord(n, d) == MathRound(n, d * GRID_SIZE) * GRID_SIZE

\* snapToGrid(p) for a point with integer coordinates.
snapToGrid(p) == <<SnapCoord(p[1], 1), SnapCoord(p[2], 1)>>

\* angleAtVertexDot(a, b, c): the angle at b between rays b->a and b->c, as
\* <<sgn, num, den>> with cos = sgn * sqrt(num / den) in lowest terms; 0 (cos 1)
\* when either ray has zero length.
angleAtVertexDot(a, b, c) ==
    LET ux == a[1] - b[1]
        uz == a[2] - b[2]
        vx == c[1] - b[1]
        vz == c[2] - b[2]
        dot == ux * vx + uz * vz
        lenUSq == ux * ux + uz * uz
        lenVSq == vx * vx + vz * vz
        g == Gcd(dot * dot, lenUSq * lenVSq)
    IN  IF lenUSq = 0 \/ lenVSq = 0 THEN <<1, 1, 1>>
        ELSE IF dot = 0 THEN <<0, 0, 1>>
        ELSE <<Sgn(dot), (dot * dot) \div g, (lenUSq * lenVSq) \div g>>

\* angle < other, for angles in [0, pi]: the cosine is strictly larger.
AngleLess(angle, other) ==
    angle[1] * angle[2] * other[3] > other[1] * other[2] * angle[3]

\* segmentsIntersectionPoint2DWithT(p1, p2, p3, p4).  t and u are the fractions
\* tn / dn and un / dn with dn > 0; point is <<nx, nz, dn>>, the point
\* (nx / dn, nz / dn).
segmentsIntersectionPoint2DWithT(p1, p2, p3, p4) ==
    LET x1 == p1[1]
        z1 == p1[2]
        x2 == p2[1]
        z2 == p2[2]
        x3 == p3[1]
        z3 == p3[2]
        x4 == p4[1]
        z4 == p4[2]
        denom == (x1 - x2) * (z3 - z4) - (z1 - z2) * (x3 - x4)
        s == Sgn(denom)
        dn == Abs(denom)
        tn == s * ((x1 - x3) * (z3 - z4) - (z1 - z3) * (x3 - x4))
        un == s * ((x1 - x3) * (z1 - z2) - (z1 - z3) * (x1 - x2))
    IN  IF dn * EpsInv < UnitSq THEN [hit |-> FALSE]
        ELSE IF /\ tn * EpsInv > dn
                /\ tn * EpsInv < dn * (EpsInv - 1)
                /\ un * EpsInv > dn
                /\ un * EpsInv < dn * (EpsInv - 1)
             THEN [hit |-> TRUE,
                   point |-> <<x1 * dn + tn * (x2 - x1), z1 * dn + tn * (z2 - z1), dn>>,
                   t |-> <<tn, dn>>]
             ELSE [hit |-> FALSE]

\* wouldIntersectExistingWalls(start, end, segments)
wouldIntersectExistingWalls(start, end, segs) ==
    \E i \in 1..Len(segs) :
        segmentsIntersectionPoint2DWithT(start, end, segs[i].start, segs[i].end).hit


\* ----------------------------------------------------------------- state
VARIABLES
    isDrawingMode,    \* CadViewport useState(false)
    snapGridEnabled,  \* CadViewport useState(true)
    segments,         \* CadViewport: the current WallSet, Segment[]
    history,          \* CadViewport: undo stack, most recent last
    redoStack,        \* CadViewport: redo stack, most recent first
    selectedId,       \* CadViewport: id of the selected segment or NoId
    isDrawing,        \* DrawingPlane: session is Drawing
    startPoint,       \* DrawingPlane: anchor of the session or Null
    currentPoint,     \* DrawingPlane: preview end or Null
    previewAngle,     \* DrawingPlane: angle shown at the anchor or Null
    previewBlocked,   \* DrawingPlane: the blocked flag
    canPlaceWall,     \* DrawingPlane: gate of the plain append
    uuids,            \* number of ids crypto.randomUUID() has handed out
    lastEvent,        \* the event handled last, when it is one of those recorded
    steps             \* events handled so far (counted by the step-bounded runs)

cad == <<isDrawingMode, snapGridEnabled, segments, history, redoStack, selectedId>>
session == <<isDrawing, startPoint, currentPoint, previewAngle, previewBlocked, canPlaceWall>>
vars == <<cad, session, uuids, lastEvent>>

\* Segment = { id, start, end }
Segment(id, start, end) == [id |-> id, start |-> start, end |-> end]

\* crypto.randomUUID(): the k-th id drawn after n earlier draws; ids are the
\* positive integers in order of drawing, so no id is ever handed out twice.
randomUUID(n, k) == n + k

\* The ray of a pointer event that misses the plane.
Miss == <<>>

\* getPlaneIntersection(event): intersectPlane writes the hit into a fresh
\* Vector3 and its own null result is dropped, so a missing ray yields the
\* untouched vector (0, 0, 0); the function never returns null.
getPlaneIntersection(ray) == IF ray = Miss THEN <<0, 0>> ELSE ray

\* snapPoints: segments.flatMap(s => [s.start, s.end])
RECURSIVE FlatEndpoints(_)
FlatEndpoints(segs) ==
    IF segs = <<>> THEN <<>>
    ELSE <<Head(segs).start, Head(segs).end>> \o FlatEndpoints(Tail(segs))

snapPoints(segs) == FlatEndpoints(segs)

DistSq(a, b) == (a[1] - b[1]) * (a[1] - b[1]) + (a[2] - b[2]) * (a[2] - b[2])

\* The for loop of applySnap from index i on, closest and minDistSq so far.
RECURSIVE SnapLoop(_, _, _, _, _)
SnapLoop(sps, i, snapped, closest, minDistSq) ==
    IF i > Len(sps) THEN closest
    ELSE IF DistSq(sps[i], snapped) <= minDistSq
         THEN SnapLoop(sps, i + 1, snapped, sps[i], DistSq(sps[i], snapped))
         ELSE SnapLoop(sps, i + 1, snapped, closest, minDistSq)

\* applySnap returning snapped ?? closest: the grid point wins over a vertex.
applySnapGridFirst(p, gridEnabled, sps) ==
    IF p = Null THEN Null
    ELSE IF gridEnabled THEN <<SnapCoord(p[1], 1), SnapCoord(p[2], 1)>> ELSE p

\* applySnap(p) under the given snapGridEnabled and snapPoints.
applySnap(p, gridEnabled, sps) ==
    IF p = Null THEN Null
    ELSE LET snapped == IF gridEnabled THEN snapToGrid(p) ELSE p
             closest == SnapLoop(sps, 1, snapped, Null, SNAP_RADIUS * SNAP_RADIUS)
         IN  IF Len(sps) = 0 THEN snapped
             ELSE IF closest # Null THEN closest ELSE snapped

\* ------------------------------------------------------- pure parts of the handlers
\* t of res strictly below t of best (both fractions with positive denominator).
TLess(res, best) == res.t[1] * best.t[2] < best.t[1] * res.t[2]

\* The scan of handleClick over segments from index i on: the index of bestSeg
\* so far (0 when there is none) and bestHit.
RECURSIVE HitLoop(_, _, _, _, _, _)
HitLoop(segs, i, start, p, bestSeg, bestHit) ==
    IF i > Len(segs) THEN [seg |-> bestSeg, hit |-> bestHit]
    ELSE LET res == segmentsIntersectionPoint2DWithT(start, p, segs[i].start, segs[i].end)
         IN  IF res.hit /\ (bestSeg = 0 \/ TLess(res, bestHit))
             THEN HitLoop(segs, i + 1, start, p, i, res)
             ELSE HitLoop(segs, i + 1, start, p, bestSeg, bestHit)

\* The scan with res.t < bestHit.t left out: the first wall hit stays the best.
BestHitFirst(segs, start, p) ==
    IF \E i \in 1..Len(segs) :
            segmentsIntersectionPoint2DWithT(start, p, segs[i].start, segs[i].end).hit
    THEN LET k == CHOOSE i \in 1..Len(segs) :
                    /\ segmentsIntersectionPoint2DWithT(start, p, segs[i].start, segs[i].end).hit
                    /\ \A j \in 1..(i - 1) :
                            ~segmentsIntersectionPoint2DWithT(start, p, segs[j].start, segs[j].end).hit
         IN  [seg |-> k,
              hit |-> segmentsIntersectionPoint2DWithT(start, p, segs[k].start, segs[k].end)]
    ELSE [seg |-> 0, hit |-> [hit |-> FALSE]]

\* bestSeg (by place, 0 for none) and bestHit after the scan of handleClick.
BestHit(segs, start, p) == HitLoop(segs, 1, start, p, 0, [hit |-> FALSE])

\* snapToGrid(bestHit.point)
IntersectionPoint(hit) ==
    <<SnapCoord(hit.point[1], hit.point[3]), SnapCoord(hit.point[2], hit.point[3])>>

\* segments.flatMap(s => s.id === bestSeg.id ? [segA, segB] : [s])
RECURSIVE FlatMapSplit(_, _, _, _)
FlatMapSplit(segs, bestId, segA, segB) ==
    IF segs = <<>> THEN <<>>
    ELSE (IF Head(segs).id = bestId THEN <<segA, segB>> ELSE <<Head(segs)>>)
         \o FlatMapSplit(Tail(segs), bestId, segA, segB)

\* SplitNext with the split wall left in the WallSet beside its two halves.
SplitNextKeepsTarget(segs, best, start, n) ==
    LET bestSeg == segs[best.seg]
        X == <<SnapCoord(best.hit.point[1], best.hit.point[3]),
               SnapCoord(best.hit.point[2], best.hit.point[3])>>
    IN  segs \o <<[id |-> n + 2, start |-> bestSeg.start, end |-> X],
                  [id |-> n + 3, start |-> X, end |-> bestSeg.end],
                  [id |-> n + 1, start |-> start, end |-> X]>>

\* next of the T-junction branch: ids are drawn in the order snappedNewSeg,
\* segA, segB; the split wall is replaced in place and snappedNewSeg pushed last.
SplitNext(segs, best, start, n) ==
    LET bestSeg == segs[best.seg]
        X == IntersectionPoint(best.hit)
        snappedNewSeg == Segment(randomUUID(n, 1), start, X)
        segA == Segment(randomUUID(n, 2), bestSeg.start, X)
        segB == Segment(randomUUID(n, 3), X, bestSeg.end)
    IN  Append(FlatMapSplit(segs, bestSeg.id, segA, segB), snappedNewSeg)

\* AppendNext with the new segment put first: [newSeg, ...segments]
AppendNextFirst(segs, start, p, n) ==
    <<[id |-> n + 1, start |-> start, end |-> p]>> \o segs

\* next of the regular branch: [...segments, newSeg]
AppendNext(segs, start, p, n) == Append(segs, Segment(randomUUID(n, 1), start, p))

Touches(seg, b) == seg.start = b \/ seg.end = b

\* [...segments].reverse().find(touching b): the index of the last segment with
\* an endpoint equal to b, 0 when there is none.
LastTouching(segs, b) ==
    IF \E i \in 1..Len(segs) : Touches(segs[i], b)
    THEN CHOOSE i \in 1..Len(segs) :
            /\ Touches(segs[i], b)
            /\ \A j \in (i + 1)..Len(segs) : ~Touches(segs[j], b)
    ELSE 0

\* The far endpoint a of lastTouching.
FarEnd(seg, b) == IF seg.start = b THEN seg.end ELSE seg.start

\* segments.filter(s => s.id !== selectedId)
RECURSIVE FilterOut(_, _)
FilterOut(segs, id) ==
    IF segs = <<>> THEN <<>>
    ELSE (IF Head(segs).id # id THEN <<Head(segs)>> ELSE <<>>) \o FilterOut(Tail(segs), id)

\* ------------------------------------------------------------- bookkeeping
\* The record of an event: op the handler, p the snapped point of a click or
\* move, did the branch taken, before the WallSet and the two stacks the handler
\* started from, blocked whether a click found canPlaceWall false.
Before == [segments |-> segments, history |-> history, redoStack |-> redoStack]

Event(op, p, did) ==
    [op |-> op, p |-> p, did |-> did, before |-> Before,
     blocked |-> (op = "click" /\ ~canPlaceWall)]

\* Recorded are a click that opened a session, committed or was refused, a move
\* that set the preview, an undo, redo or delete that took effect, an exit that
\* ended a blocked session, an undo that found the undo stack empty during a
\* session, a redo that found the redo stack empty with a wall selected, and a
\* delete that found nothing selected while the redo stack held a snapshot;
\* after any other event lastEvent is Quiet.
Quiet ==
    [op |-> "other", p |-> Null, did |-> "other",
     before |-> [segments |-> <<>>, history |-> <<>>, redoStack |-> <<>>],
     blocked |-> FALSE]

\* The line of WallSets the history stands for, kept beside the program's own
\* state: log[1] is the initial WallSet and log[i + 1] the WallSet that commit
\* i of the line made current; pos is the place of the current WallSet.  A
\* commit cuts the line after pos and adds its WallSet; an undo steps back and
\* a redo forward, each only where there is a place to step to.
VARIABLE run

RunCommit(newWalls) ==
    run' = [log |-> Append(SubSeq(run.log, 1, run.pos), newWalls), pos |-> run.pos + 1]

RunUndo == run' = IF run.pos > 1 THEN [run EXCEPT !.pos = @ - 1] ELSE run

RunRedo == run' = IF run.pos < Len(run.log) THEN [run EXCEPT !.pos = @ + 1] ELSE run

allvars == <<vars, run, steps>>

\* ----------------------------------------------------------- CadViewport
\* pushHistory without setRedoStack([])
pushHistoryKeepsRedo(next) ==
    /\ history' = Append(history, segments)
    /\ redoStack' = redoStack
    /\ segments' = next

\* pushHistory(next)
pushHistory(next) ==
    /\ history' = Append(history, segments)
    /\ redoStack' = <<>>
    /\ segments' = next

\* handleUndo returning prev instead of prev.slice(0, -1)
handleUndoKeepsHistory ==
    /\ IF Len(history) = 0
       THEN /\ UNCHANGED <<history, redoStack, segments, selectedId>>
            /\ lastEvent' = IF isDrawing THEN Event("undo", Null, "none") ELSE Quiet
       ELSE /\ redoStack' = <<segments>> \o redoStack
            /\ segments' = history[Len(history)]
            /\ selectedId' = NoId
            /\ history' = history
            /\ lastEvent' = Event("undo", Null, "undo")
    /\ RunUndo
    /\ UNCHANGED <<isDrawingMode, snapGridEnabled, session, uuids>>

\* handleUndo without setSelectedId(null)
handleUndoKeepsSelection ==
    /\ IF Len(history) = 0
       THEN /\ UNCHANGED <<history, redoStack, segments>>
            /\ lastEvent' = IF isDrawing THEN Event("undo", Null, "none") ELSE Quiet
       ELSE /\ redoStack' = <<segments>> \o redoStack
            /\ segments' = history[Len(history)]
            /\ history' = SubSeq(history, 1, Len(history) - 1)
            /\ lastEvent' = Event("undo", Null, "undo")
    /\ selectedId' = selectedId
    /\ RunUndo
    /\ UNCHANGED <<isDrawingMode, snapGridEnabled, session, uuids>>

\* handleUndo
handleUndo ==
    /\ IF Len(history) = 0
       THEN /\ UNCHANGED <<history, redoStack, segments, selectedId>>
            /\ lastEvent' = IF isDrawing THEN Event("undo", Null, "none") ELSE Quiet
       ELSE /\ redoStack' = <<segments>> \o redoStack
            /\ segments' = history[Len(history)]
            /\ selectedId' = NoId
            /\ history' = SubSeq(history, 1, Len(history) - 1)
            /\ lastEvent' = Event("undo", Null, "undo")
    /\ RunUndo
    /\ UNCHANGED <<isDrawingMode, snapGridEnabled, session, uuids>>

\* handleRedo returning prev instead of rest
handleRedoKeepsEntry ==
    /\ IF Len(redoStack) = 0
       THEN /\ UNCHANGED <<history, redoStack, segments, selectedId>>
            /\ lastEvent' = IF selectedId # NoId THEN Event("redo", Null, "none") ELSE Quiet
       ELSE /\ history' = Append(history, segments)
            /\ segments' = Head(redoStack)
            /\ selectedId' = NoId
            /\ redoStack' = redoStack
            /\ lastEvent' = Event("redo", Null, "redo")
    /\ RunRedo
    /\ UNCHANGED <<isDrawingMode, snapGridEnabled, session, uuids>>

\* handleRedo with setSelectedId(null) outside the updater of setRedoStack
handleRedoAlwaysDeselects ==
    /\ IF Len(redoStack) = 0
       THEN /\ UNCHANGED <<history, redoStack, segments>>
            /\ lastEvent' = IF selectedId # NoId THEN Event("redo", Null, "none") ELSE Quiet
       ELSE /\ history' = Append(history, segments)
            /\ segments' = Head(redoStack)
            /\ redoStack' = Tail(redoStack)
            /\ lastEvent' = Event("redo", Null, "redo")
    /\ selectedId' = NoId
    /\ RunRedo
    /\ UNCHANGED <<isDrawingMode, snapGridEnabled, session, uuids>>

\* handleRedo
handleRedo ==
    /\ IF Len(redoStack) = 0
       THEN /\ UNCHANGED <<history, redoStack, segments, selectedId>>
            /\ lastEvent' = IF selectedId # NoId THEN Event("redo", Null, "none") ELSE Quiet
       ELSE /\ history' = Append(history, segments)
            /\ segments' = Head(redoStack)
            /\ selectedId' = NoId
            /\ redoStack' = Tail(redoStack)
            /\ lastEvent' = Event("redo", Null, "redo")
    /\ RunRedo
    /\ UNCHANGED <<isDrawingMode, snapGridEnabled, session, uuids>>

\* handleDeleteSelected without the test of selectedId
handleDeleteSelectedNoGuard ==
    /\ pushHistory(FilterOut(segments, selectedId))
    /\ selectedId' = NoId
    /\ RunCommit(FilterOut(segments, selectedId))
    /\ lastEvent' = IF selectedId = NoId /\ redoStack # <<>>
                     THEN Event("delete", Null, "none")
                     ELSE Event("delete", Null, "delete")
    /\ UNCHANGED <<isDrawingMode, snapGridEnabled, session, uuids>>

\* handleDeleteSelected
handleDeleteSelected ==
    /\ IF selectedId = NoId
       THEN /\ UNCHANGED <<history, redoStack, segments, selectedId, run>>
            /\ lastEvent' = IF redoStack # <<>> THEN Event("delete", Null, "none") ELSE Quiet
       ELSE /\ pushHistory(FilterOut(segments, selectedId))
            /\ selectedId' = NoId
            /\ RunCommit(FilterOut(segments, selectedId))
            /\ lastEvent' = Event("delete", Null, "delete")
    /\ UNCHANGED <<isDrawingMode, snapGridEnabled, session, uuids>>

\* resetDrawing without setCanPlaceWall(true)
resetDrawingKeepsGate ==
    /\ isDrawing' = FALSE
    /\ startPoint' = Null
    /\ currentPoint' = Null
    /\ previewAngle' = Null
    /\ previewBlocked' = FALSE
    /\ canPlaceWall' = canPlaceWall

\* resetDrawing, and the body of the effect on isDrawingMode
resetDrawing ==
    /\ isDrawing' = FALSE
    /\ startPoint' = Null
    /\ currentPoint' = Null
    /\ previewAngle' = Null
    /\ previewBlocked' = FALSE
    /\ canPlaceWall' = TRUE

\* exitDrawingMode without the effect of DrawingPlane: the session is kept.
exitDrawingModeKeepsSession ==
    /\ isDrawingMode' = FALSE
    /\ UNCHANGED session
    /\ lastEvent' = IF isDrawing /\ previewBlocked THEN Event("exit", Null, "exit") ELSE Quiet
    /\ UNCHANGED <<snapGridEnabled, segments, history, redoStack, selectedId, uuids, run>>

\* setIsDrawingMode(false), by the Q key or the Stop button, and the effect of
\* DrawingPlane that the change of isDrawingMode triggers.
exitDrawingMode ==
    /\ isDrawingMode' = FALSE
    /\ IF isDrawingMode THEN resetDrawing ELSE UNCHANGED session
    /\ lastEvent' = IF isDrawing /\ previewBlocked THEN Event("exit", Null, "exit") ELSE Quiet
    /\ UNCHANGED <<snapGridEnabled, segments, history, redoStack, selectedId, uuids, run>>

\* handleEnterDraw
handleEnterDraw ==
    /\ isDrawingMode' = TRUE
    /\ selectedId' = NoId
    /\ lastEvent' = Quiet
    /\ UNCHANGED <<snapGridEnabled, segments, history, redoStack, session, uuids, run>>

\* The Snap grid button: setSnapGridEnabled(v => !v)
toggleSnapGrid ==
    /\ snapGridEnabled' = ~snapGridEnabled
    /\ lastEvent' = Quiet
    /\ UNCHANGED <<isDrawingMode, segments, history, redoStack, selectedId, session, uuids, run>>

\* onClick of the WallSegment of segments[i]
selectSegment(i) ==
    /\ i \in 1..Len(segments)
    /\ IF isDrawingMode
       THEN /\ UNCHANGED selectedId
            /\ lastEvent' = Quiet
       ELSE /\ selectedId' = IF selectedId = segments[i].id THEN NoId ELSE segments[i].id
            /\ lastEvent' = Quiet
    /\ UNCHANGED <<isDrawingMode, snapGridEnabled, segments, history, redoStack, session, uuids, run>>

\* ---------------------------------------------------------- DrawingPlane
\* BeginDrawing without setCurrentPoint(p)
BeginDrawingKeepsCurrent(p) ==
    /\ startPoint' = p
    /\ currentPoint' = currentPoint
    /\ isDrawing' = TRUE
    /\ previewAngle' = Null
    /\ previewBlocked' = FALSE
    /\ canPlaceWall' = TRUE
    /\ selectedId' = NoId
    /\ lastEvent' = Event("click", p, "begin")
    /\ UNCHANGED <<isDrawingMode, snapGridEnabled, segments, history, redoStack, uuids, run>>

\* The branch of handleClick taken when no session is open.
BeginDrawing(p) ==
    /\ startPoint' = p
    /\ currentPoint' = p
    /\ isDrawing' = TRUE
    /\ previewAngle' = Null
    /\ previewBlocked' = FALSE
    /\ canPlaceWall' = TRUE
    /\ selectedId' = NoId
    /\ lastEvent' = Event("click", p, "begin")
    /\ UNCHANGED <<isDrawingMode, snapGridEnabled, segments, history, redoStack, uuids, run>>

\* The T-junction branch of handleClick.
CommitSplit(p, best) ==
    /\ pushHistory(SplitNext(segments, best, startPoint, uuids))
    /\ RunCommit(SplitNext(segments, best, startPoint, uuids))
    /\ uuids' = uuids + 3
    /\ resetDrawing
    /\ lastEvent' = Event("click", p, "split")
    /\ UNCHANGED <<isDrawingMode, snapGridEnabled, selectedId>>

\* The regular branch of handleClick.
CommitAppend(p) ==
    /\ pushHistory(AppendNext(segments, startPoint, p, uuids))
    /\ RunCommit(AppendNext(segments, startPoint, p, uuids))
    /\ uuids' = uuids + 1
    /\ resetDrawing
    /\ lastEvent' = Event("click", p, "append")
    /\ UNCHANGED <<isDrawingMode, snapGridEnabled, selectedId>>

\* A return of handleClick that sets no state.
ClickReturns(p, did) ==
    /\ lastEvent' = IF did = "blocked" THEN Event("click", p, did) ELSE Quiet
    /\ UNCHANGED <<cad, session, uuids, run>>

\* handleClick with the canPlaceWall test moved before the T-junction scan.
handleClickGateFirst(ray) ==
    LET raw == getPlaneIntersection(ray)
        p == applySnap(raw, snapGridEnabled, snapPoints(segments))
    IN  IF ~isDrawingMode THEN ClickReturns(Null, "ignored")
        ELSE IF p = Null THEN ClickReturns(Null, "ignored")
        ELSE IF ~isDrawing THEN BeginDrawing(p)
        ELSE IF startPoint = Null THEN ClickReturns(p, "ignored")
        ELSE IF ~canPlaceWall THEN ClickReturns(p, "blocked")
        ELSE LET best == BestHit(segments, startPoint, p)
             IN  IF best.seg # 0 THEN CommitSplit(p, best)
                 ELSE CommitAppend(p)

\* handleClick without the canPlaceWall test.
handleClickNoGate(ray) ==
    LET raw == getPlaneIntersection(ray)
        p == applySnap(raw, snapGridEnabled, snapPoints(segments))
    IN  IF ~isDrawingMode THEN ClickReturns(Null, "ignored")
        ELSE IF p = Null THEN ClickReturns(Null, "ignored")
        ELSE IF ~isDrawing THEN BeginDrawing(p)
        ELSE IF startPoint = Null THEN ClickReturns(p, "ignored")
        ELSE LET best == BestHit(segments, startPoint, p)
             IN  IF best.seg # 0 THEN CommitSplit(p, best)
                 ELSE CommitAppend(p)

\* handleClick(event), ray the pointer ray of the event
handleClick(ray) ==
    LET raw == getPlaneIntersection(ray)
        p == applySnap(raw, snapGridEnabled, snapPoints(segments))
    IN  IF ~isDrawingMode THEN ClickReturns(Null, "ignored")
        ELSE IF p = Null THEN ClickReturns(Null, "ignored")
        ELSE IF ~isDrawing THEN BeginDrawing(p)
        ELSE IF startPoint = Null THEN ClickReturns(p, "ignored")
        ELSE LET best == BestHit(segments, startPoint, p)
             IN  IF best.seg # 0 THEN CommitSplit(p, best)
                 ELSE IF ~canPlaceWall THEN ClickReturns(p, "blocked")
                 ELSE CommitAppend(p)

\* PreviewFlags with blocked = tooSharp: the intersection test left out.
PreviewFlagsAngleOnly(p) ==
    LET b == startPoint
        lastTouching == LastTouching(segments, b)
        angle == angleAtVertexDot(FarEnd(segments[lastTouching], b), b, p)
        tooSharp == lastTouching # 0 /\ AngleLess(angle, MIN_ANGLE_RAD)
    IN  /\ previewAngle' = IF lastTouching # 0 THEN angle ELSE Null
        /\ previewBlocked' = tooSharp
        /\ canPlaceWall' = ~tooSharp

\* The part of handlePointerMove after setCurrentPoint, startPoint not null.
PreviewFlags(p) ==
    LET b == startPoint
        lastTouching == LastTouching(segments, b)
        angle == angleAtVertexDot(FarEnd(segments[lastTouching], b), b, p)
        tooSharp == lastTouching # 0 /\ AngleLess(angle, MIN_ANGLE_RAD)
        intersects == wouldIntersectExistingWalls(startPoint, p, segments)
        blocked == tooSharp \/ intersects
    IN  /\ previewAngle' = IF lastTouching # 0 THEN angle ELSE Null
        /\ previewBlocked' = blocked
        /\ canPlaceWall' = ~blocked

\* handlePointerMove(event), ray the pointer ray of the event
handlePointerMove(ray) ==
    LET raw == getPlaneIntersection(ray)
        p == applySnap(raw, snapGridEnabled, snapPoints(segments))
    IN  /\ IF ~isDrawingMode \/ ~isDrawing
           THEN /\ UNCHANGED session
                /\ lastEvent' = Quiet
           ELSE IF p = Null
           THEN /\ UNCHANGED session
                /\ lastEvent' = Quiet
           ELSE /\ currentPoint' = p
                /\ IF startPoint = Null
                   THEN UNCHANGED <<previewAngle, previewBlocked, canPlaceWall>>
                   ELSE PreviewFlags(p)
                /\ UNCHANGED <<isDrawing, startPoint>>
                /\ lastEvent' = Event("move", p, "move")
        /\ UNCHANGED <<cad, uuids, run>>

\* ------------------------------------------------------------ specification
Init ==
    /\ isDrawingMode = FALSE
    /\ snapGridEnabled = TRUE
    /\ segments = <<>>
    /\ history = <<>>
    /\ redoStack = <<>>
    /\ selectedId = NoId
    /\ isDrawing = FALSE
    /\ startPoint = Null
    /\ currentPoint = Null
    /\ previewAngle = Null
    /\ previewBlocked = FALSE
    /\ canPlaceWall = TRUE
    /\ uuids = 0
    /\ lastEvent = Quiet
    /\ steps = 0
    /\ run = [log |-> <<<<>>>>, pos |-> 1]

\* Pointer rays of the events of Spec, hit points in units of 0.125: one point
\* off the grid, which the grid snap moves to (8, 2) and a vertex within
\* SNAP_RADIUS takes over.
Rays == {<<7, 1>>}

\* Rays of SpecJunction: the wall (0,0)-(12,6) is crossed off the grid by
\* (8,0)-(4,10), and (8,0) is seen from (0,0) at 26.6 degrees from (12,6).
JunctionRays == {<<0, 0>>, <<12, 6>>, <<4, 10>>, <<8, 0>>}

\* Rays of SpecCrossing: those of SpecJunction and (4,2), a point of the wall
\* (0,0)-(12,6).
CrossingRays == JunctionRays \cup {<<4, 2>>}

\* Rays of SpecSnap: (2,0) is halfway between the ends of a wall (0,0)-(4,0),
\* within SNAP_RADIUS of both, and (3,1) is off the grid, moved by the grid snap
\* to (4,2), within SNAP_RADIUS of (4,0) only.
SnapRays == {<<0, 0>>, <<4, 0>>, <<2, 0>>, <<3, 1>>}

\* Rays of SpecNearest: the walls (0,0)-(16,4) and (0,0)-(16,12) are both
\* crossed by (12,16)-(12,0), the second nearer to (12,16), at (12,9), which is
\* off the grid.
NearestRays == {<<0, 0>>, <<16, 4>>, <<16, 12>>, <<12, 16>>, <<12, 0>>}

\* What bounds a run: in Spec the ids drawn and the depth of the undo stack, in
\* the others the number of events.
Limit(kind) ==
    CASE kind = "history" ->
            /\ uuids' <= MaxUuid
            /\ Len(history') <= MaxHistory
            /\ UNCHANGED steps
      [] kind = "junction" -> steps < MaxSteps /\ steps' = steps + 1
      [] kind = "crossing" -> steps < MaxCrossingSteps /\ steps' = steps + 1
      [] kind = "snap" -> steps < MaxSnapSteps /\ steps' = steps + 1
      [] kind = "nearest" -> steps < MaxNearestSteps /\ steps' = steps + 1

Step(rays, kind) ==
    \/ \E ray \in rays : handleClick(ray) /\ Limit(kind)
    \/ \E ray \in rays : handlePointerMove(ray) /\ Limit(kind)
    \/ handleUndo /\ Limit(kind)
    \/ handleRedo /\ Limit(kind)
    \/ handleDeleteSelected /\ Limit(kind)
    \/ exitDrawingMode /\ Limit(kind)
    \/ handleEnterDraw /\ Limit(kind)
    \/ toggleSnapGrid /\ Limit(kind)
    \/ \E i \in 1..Len(segments) : selectSegment(i) /\ Limit(kind)

Next == Step(Rays, "history")

Spec == Init /\ [][Next]_allvars

NextJunction == Step(JunctionRays, "junction")

SpecJunction == Init /\ [][NextJunction]_allvars

NextCrossing == Step(CrossingRays, "crossing")

SpecCrossing == Init /\ [][NextCrossing]_allvars

NextSnap == Step(SnapRays, "snap")

SpecSnap == Init /\ [][NextSnap]_allvars

NextNearest == Step(NearestRays, "nearest")

SpecNearest == Init /\ [][NextNearest]_allvars

\* ------------------------------------------------------------------ claims
\* The ids of the segments of a WallSet.
Ids(segs) == {segs[i].id : i \in 1..Len(segs)}

\* The snapped point a pointer event on ray works with in the current state.
SnappedPoint(ray) ==
    applySnap(getPlaneIntersection(ray), snapGridEnabled, snapPoints(segments))

\* The session is Drawing and its anchor is present.
Drawing == isDrawingMode /\ isDrawing /\ startPoint # Null

\* The event just handled committed a mutation.
Committed(e) == e.did \in {"append", "split", "delete"}

\* Every id held anywhere: in the current WallSet or in a snapshot of a stack.
AllIds ==
    Ids(segments)
        \cup UNION {Ids(history[i]) : i \in 1..Len(history)}
        \cup UNION {Ids(redoStack[i]) : i \in 1..Len(redoStack)}

\* The session is Idle with everything of the session discarded.
IdleAfter ==
    /\ ~isDrawing'
    /\ startPoint' = Null
    /\ currentPoint' = Null
    /\ previewAngle' = Null
    /\ ~previewBlocked'

\* The WallSet the commit of event e hands to pushHistory.
NewWalls(e) ==
    CASE e.did = "append" -> AppendNext(segments, startPoint, e.p, uuids)
      [] e.did = "split" ->
            SplitNext(segments, BestHit(segments, startPoint, e.p), startPoint, uuids)
      [] e.did = "delete" -> FilterOut(segments, selectedId)

\* C1: every committed mutation (append, T-junction split, deletion of the
\* selected segment) pushes the WallSet current before it onto the end of the
\* undo stack, empties the redo stack and makes the new WallSet current; the
\* undo stack grows by exactly one entry, and no event pushes more than one.
C1_CommitPushesOnce ==
    [][/\ Len(history') <= Len(history) + 1
       /\ Committed(lastEvent') =>
            /\ history' = Append(history, segments)
            /\ Len(history') = Len(history) + 1
            /\ redoStack' = <<>>
            /\ segments' = NewWalls(lastEvent')]_allvars

\* A commit has just replaced the WallSet and emptied a redo stack that held
\* a snapshot.
C1_Witness ==
    /\ Committed(lastEvent)
    /\ lastEvent.before.redoStack # <<>>
    /\ redoStack = <<>>
    /\ history = Append(lastEvent.before.history, lastEvent.before.segments)

\* C2: undo immediately followed by redo restores the WallSet that was current
\* before the undo and leaves the undo stack and the redo stack as they were
\* before the undo: after at least one commit the undo takes effect and the
\* redo takes it back, and with no commit at all neither changes anything.
C2_UndoRedoRoundTrip ==
    [][/\ (lastEvent.did = "undo" /\ lastEvent'.did = "redo") =>
            /\ segments' = lastEvent.before.segments
            /\ history' = lastEvent.before.history
            /\ redoStack' = lastEvent.before.redoStack
       /\ (history = <<>> /\ redoStack = <<>> /\ (handleUndo \/ handleRedo)) =>
            UNCHANGED <<segments, history, redoStack>>]_allvars

\* A redo has just brought back the only undone WallSet on top of two
\* snapshots: the state a commit had left.
C2_Witness ==
    /\ lastEvent.did = "redo"
    /\ lastEvent.before.redoStack = <<segments>>
    /\ redoStack = <<>>
    /\ Len(history) >= 2
    /\ segments # <<>>

\* C3: after n commits, k undos (k <= n) and j redos (j <= k) the current
\* WallSet is the one commit n-k+j made current (the initial one for 0), the undo
\* stack holds n-k+j snapshots and the redo stack k-j.  In run, n is
\* Len(run.log) - 1 and n-k+j is run.pos - 1.
C3_HistoryPosition ==
    /\ segments = run.log[run.pos]
    /\ Len(history) = run.pos - 1
    /\ Len(redoStack) = Len(run.log) - run.pos

\* Three commits, and a redo has just stepped to the WallSet of the second.
C3_Witness ==
    /\ Len(run.log) = 4
    /\ run.pos = 3
    /\ lastEvent.did = "redo"
    /\ Len(segments) = 2

\* C4: a click while Drawing whose candidate start->end properly intersects an
\* existing wall performs the T-junction split, commits it and leaves the
\* session Idle, whatever the blocked flag.
C4_JunctionAlwaysSplits ==
    [][\A ray \in JunctionRays :
        (/\ Drawing
         /\ wouldIntersectExistingWalls(startPoint, SnappedPoint(ray), segments)
         /\ handleClick(ray)) =>
            /\ lastEvent'.did = "split"
            /\ segments' = SplitNext(segments,
                                     BestHit(segments, startPoint, SnappedPoint(ray)),
                                     startPoint, uuids)
            /\ history' = Append(history, segments)
            /\ IdleAfter]_allvars

\* A split was committed by a click that found the preview blocked.
C4_Witness ==
    /\ lastEvent.did = "split"
    /\ lastEvent.blocked
    /\ ~isDrawing
    /\ Len(segments) = Len(lastEvent.before.segments) + 2

\* C5: a click while Drawing with blocked true and no proper intersection of
\* start->end with an existing wall changes nothing: the session, the WallSet
\* and both stacks stay as they are.
C5_BlockedClickIsNoOp ==
    [][\A ray \in JunctionRays :
        (/\ Drawing
         /\ previewBlocked
         /\ ~wouldIntersectExistingWalls(startPoint, SnappedPoint(ray), segments)
         /\ handleClick(ray)) =>
            UNCHANGED <<cad, session, uuids>>]_allvars

\* A click has just been refused and the session is still Drawing, blocked.
C5_Witness ==
    /\ lastEvent.did = "blocked"
    /\ isDrawing
    /\ previewBlocked
    /\ ~wouldIntersectExistingWalls(startPoint, lastEvent.p, segments)

\* The wall b->p makes, at b, an angle below MIN_ANGLE_DEG with the most
\* recently added wall of segs that has an endpoint at b, both of non-zero
\* length.
TooSharp(segs, b, p) ==
    /\ LastTouching(segs, b) # 0
    /\ p # b
    /\ FarEnd(segs[LastTouching(segs, b)], b) # b
    /\ AngleLess(angleAtVertexDot(FarEnd(segs[LastTouching(segs, b)], b), b, p),
                 MIN_ANGLE_RAD)

\* C6: no click commits by plain append a wall start->end whose angle at start
\* against the most recently added wall with an endpoint at start is strictly
\* below 30 degrees.
C6_NoSharpAppend ==
    [][lastEvent'.did = "append" => ~TooSharp(segments, startPoint, lastEvent'.p)]_allvars

\* C7: no two segments of the current WallSet have a proper interior
\* intersection.
C7_NoProperCrossing ==
    \A i, j \in 1..Len(segments) :
        ~segmentsIntersectionPoint2DWithT(segments[i].start, segments[i].end,
                                          segments[j].start, segments[j].end).hit

\* C8: every segment of the current WallSet has start different from end.
C8_NoDegenerateSegment ==
    \A i \in 1..Len(segments) : segments[i].start # segments[i].end

\* new is old with one segment replaced in place by two that meet in a point X,
\* and a segment anchor->X added last, the three ids distinct and not in taken.
SplitShape(old, new, anchor, taken) ==
    \E k \in 1..Len(old) :
        LET n == Len(old)
            X == new[n + 2].end
            fresh == {new[k].id, new[k + 1].id, new[n + 2].id}
        IN  /\ Len(new) = n + 2
            /\ \A i \in 1..(k - 1) : new[i] = old[i]
            /\ \A i \in (k + 1)..n : new[i + 1] = old[i]
            /\ new[k].start = old[k].start /\ new[k].end = X
            /\ new[k + 1].start = X /\ new[k + 1].end = old[k].end
            /\ new[n + 2].start = anchor
            /\ Cardinality(fresh) = 3
            /\ fresh \cap taken = {}

\* C9: a T-junction split replaces the target, at its place, by two fresh-id
\* segments target.start->X and X->target.end, appends a third fresh-id segment
\* start->X last, leaves every other segment as it was and in order, and adds
\* exactly 2 to the number of segments.
C9_SplitReplacesTarget ==
    [][lastEvent'.did = "split" =>
            SplitShape(segments, segments', startPoint, AllIds)]_allvars

\* A split has just been committed into a WallSet that held another wall
\* besides the target.
C9_Witness ==
    /\ lastEvent.did = "split"
    /\ Len(lastEvent.before.segments) = 2
    /\ Len(segments) = 4
    /\ segments[1] = lastEvent.before.segments[1]

\* C10: a plain append adds exactly one segment start->end with an id no
\* existing segment has at the end of the WallSet, alters, removes or reorders
\* nothing, and leaves the session Idle.
C10_AppendAddsOneLast ==
    [][lastEvent'.did = "append" =>
            LET n == Len(segments)
            IN  /\ Len(segments') = n + 1
                /\ SubSeq(segments', 1, n) = segments
                /\ segments'[n + 1].start = startPoint
                /\ segments'[n + 1].end = lastEvent'.p
                /\ segments'[n + 1].id \notin AllIds
                /\ IdleAfter]_allvars

\* A wall of non-zero length has just been appended behind an existing one.
C10_Witness ==
    /\ lastEvent.did = "append"
    /\ Len(segments) = 2
    /\ segments[2].start # segments[2].end
    /\ segments[2].end = lastEvent.p
    /\ ~isDrawing

\* C11: the exit from drawing mode can be taken in every state, leaves drawing
\* mode off and the session Idle with start, current, previewAngle and blocked
\* discarded, changes nothing when drawing mode is already off (a second exit
\* is a no-op), and never changes the WallSet, the undo stack or the redo
\* stack.
C11_ExitAlwaysIdle ==
    [][/\ ENABLED exitDrawingMode
       /\ exitDrawingMode =>
            /\ ~isDrawingMode'
            /\ IdleAfter
            /\ canPlaceWall'
            /\ UNCHANGED <<segments, history, redoStack>>
            /\ ~isDrawingMode => UNCHANGED <<cad, session, uuids>>]_allvars

\* An exit has just ended a blocked Drawing session over a non-empty WallSet.
C11_Witness ==
    /\ lastEvent.did = "exit"
    /\ ~isDrawingMode
    /\ ~isDrawing
    /\ startPoint = Null
    /\ ~previewBlocked
    /\ segments # <<>>
    /\ segments = lastEvent.before.segments

\* C12: undo with an empty undo stack and redo with an empty redo stack change
\* nothing: the WallSet, both stacks, the selection, the flags of CadViewport
\* and the drawing session stay as they are.
C12_EmptyUndoRedoNoOp ==
    [][/\ (history = <<>> /\ handleUndo) => UNCHANGED <<cad, session, uuids>>
       /\ (redoStack = <<>> /\ handleRedo) => UNCHANGED <<cad, session, uuids>>]_allvars

\* A redo has just found the redo stack empty while a wall was selected, and
\* the wall is still selected.
C12_Witness ==
    /\ lastEvent.op = "redo"
    /\ lastEvent.did = "none"
    /\ redoStack = <<>>
    /\ selectedId \in Ids(segments)
    /\ history # <<>>

\* C13: a delete with no id selected, or with a selected id that no segment of
\* the current WallSet has, leaves the WallSet, the undo stack and the redo
\* stack as they are.
C13_DeleteUnknownNoOp ==
    [][(/\ selectedId = NoId \/ selectedId \notin Ids(segments)
        /\ handleDeleteSelected) =>
            UNCHANGED <<segments, history, redoStack>>]_allvars

\* A delete has just found nothing selected, and the redo stack still holds
\* the snapshot it held.
C13_Witness ==
    /\ lastEvent.op = "delete"
    /\ lastEvent.did = "none"
    /\ selectedId = NoId
    /\ redoStack # <<>>
    /\ redoStack = lastEvent.before.redoStack

\* snapped of applySnap for a pointer event on ray in the current state: the
\* grid point of the hit point, or the hit point itself with the grid snap off.
GridPoint(ray) ==
    IF snapGridEnabled THEN snapToGrid(getPlaneIntersection(ray))
    ELSE getPlaneIntersection(ray)

\* Places in snapPoints of the vertices within SNAP_RADIUS of GridPoint(ray).
Near(ray) ==
    {i \in 1..Len(snapPoints(segments)) :
        DistSq(snapPoints(segments)[i], GridPoint(ray)) <= SNAP_RADIUS * SNAP_RADIUS}

\* Places of the vertices of Near(ray) at the least distance from GridPoint(ray).
Nearest(ray) ==
    {i \in Near(ray) :
        \A j \in Near(ray) :
            DistSq(snapPoints(segments)[i], GridPoint(ray))
                <= DistSq(snapPoints(segments)[j], GridPoint(ray))}

\* C14: when a vertex of the WallSet lies within SNAP_RADIUS of the grid-snapped
\* point (of the raw point with the grid snap off), applySnap returns a vertex
\* of least squared distance to it; otherwise it returns the grid-snapped (or
\* raw) point.
C14_VertexOverridesGrid ==
    \A ray \in SnapRays :
        IF Near(ray) # {}
        THEN \E i \in Nearest(ray) : SnappedPoint(ray) = snapPoints(segments)[i]
        ELSE SnappedPoint(ray) = GridPoint(ray)

\* A move on the ray (3,1) with the grid snap on has just put the preview end
\* on the vertex (4,0) and not on the grid point (4,2).
C14_Witness ==
    /\ lastEvent.op = "move"
    /\ snapGridEnabled
    /\ GridPoint(<<3, 1>>) = <<4, 2>>
    /\ Near(<<3, 1>>) # {}
    /\ lastEvent.p = <<4, 0>>
    /\ currentPoint = SnappedPoint(<<3, 1>>)

\* C15: when distinct vertices are tied at the least squared distance within
\* SNAP_RADIUS, applySnap returns the one that comes first in snapPoints.
C15_FirstTieWins ==
    \A ray \in SnapRays :
        (\E i, j \in Nearest(ray) : snapPoints(segments)[i] # snapPoints(segments)[j]) =>
            \E i \in Nearest(ray) :
                /\ \A j \in Nearest(ray) : i <= j
                /\ SnappedPoint(ray) = snapPoints(segments)[i]

\* The result of the intersection test of a->b against wall i of segs.
HitOf(segs, a, b, i) ==
    segmentsIntersectionPoint2DWithT(a, b, segs[i].start, segs[i].end)

\* The walls of segs that a->b properly intersects, by place.
HitWalls(segs, a, b) == {i \in 1..Len(segs) : HitOf(segs, a, b, i).hit}

\* Wall k is hit by a->b nearest to a: no wall is hit at a smaller t, and none
\* before k in segs at an equal t.
NearestHit(segs, a, b, k) ==
    /\ k \in HitWalls(segs, a, b)
    /\ \A j \in HitWalls(segs, a, b) :
            /\ ~TLess(HitOf(segs, a, b, j), HitOf(segs, a, b, k))
            /\ j < k => TLess(HitOf(segs, a, b, k), HitOf(segs, a, b, j))

\* new is old with wall k alone split at X and a wall a->X added last.
SplitAt(old, new, k, X, a) ==
    /\ Len(new) = Len(old) + 2
    /\ \A i \in 1..(k - 1) : new[i] = old[i]
    /\ \A i \in (k + 1)..Len(old) : new[i + 1] = old[i]
    /\ new[k].start = old[k].start /\ new[k].end = X
    /\ new[k + 1].start = X /\ new[k + 1].end = old[k].end
    /\ new[Len(old) + 2].start = a /\ new[Len(old) + 2].end = X

\* C16: a commit click whose candidate start->end properly intersects walls
\* splits the one hit at the smallest t along start->end (the earlier wall in
\* insertion order on equal t) and no other, at the grid-snapped crossing
\* point X, and the new segment runs from start to X.
C16_SplitsNearestHit ==
    [][lastEvent'.did = "split" =>
        \E k \in 1..Len(segments) :
            /\ NearestHit(segments, startPoint, lastEvent'.p, k)
            /\ SplitAt(segments, segments', k,
                       IntersectionPoint(HitOf(segments, startPoint, lastEvent'.p, k)),
                       startPoint)]_allvars

\* A split has just been committed whose candidate hit two walls at different
\* t: the first in insertion order is whole, the second, hit nearer to start,
\* is split, and the new wall ends in the crossing point, not in the clicked
\* point.
C16_Witness ==
    /\ lastEvent.did = "split"
    /\ Len(lastEvent.before.segments) = 2
    /\ Len(segments) = 4
    /\ LET old == lastEvent.before.segments
           a == segments[4].start
       IN  /\ HitWalls(old, a, lastEvent.p) = {1, 2}
           /\ TLess(HitOf(old, a, lastEvent.p, 2), HitOf(old, a, lastEvent.p, 1))
           /\ segments[1] = old[1]
           /\ segments[2].end = segments[4].end
           /\ segments[4].end # lastEvent.p

\* Some wall of segs has an endpoint at b, and the angle at b between the far
\* endpoint of the most recently added such wall and p is below MIN_ANGLE_DEG
\* (an angle with a ray of zero length counts as 0).
CornerTooSharp(segs, b, p) ==
    /\ \E i \in 1..Len(segs) : Touches(segs[i], b)
    /\ AngleLess(angleAtVertexDot(FarEnd(segs[LastTouching(segs, b)], b), b, p),
                 MIN_ANGLE_RAD)

\* C17: a move while Drawing sets current to the snapped point p and blocked to
\* tooSharp or intersects, tooSharp by the angle at start against the most
\* recently added wall touching start, intersects by a proper intersection of
\* start->p with a wall; with no wall touching start previewAngle is cleared;
\* and blocked changes in no other step but one that ends the session.
C17_MoveSetsBlocked ==
    [][/\ \A ray \in JunctionRays :
            (Drawing /\ handlePointerMove(ray)) =>
                /\ currentPoint' = SnappedPoint(ray)
                /\ previewBlocked' =
                        (\/ CornerTooSharp(segments, startPoint, SnappedPoint(ray))
                         \/ wouldIntersectExistingWalls(startPoint, SnappedPoint(ray),
                                                        segments))
                /\ (\A i \in 1..Len(segments) : ~Touches(segments[i], startPoint)) =>
                        previewAngle' = Null
       /\ previewBlocked' # previewBlocked =>
            lastEvent'.op = "move" \/ ~isDrawing']_allvars

\* A move has just marked the preview blocked for its angle alone: the
\* candidate, of non-zero length, intersects no wall and makes less than 30
\* degrees with the last wall at start.
C17_Witness ==
    /\ lastEvent.op = "move"
    /\ isDrawing
    /\ previewBlocked
    /\ currentPoint = lastEvent.p
    /\ previewAngle # Null
    /\ TooSharp(segments, startPoint, currentPoint)
    /\ ~wouldIntersectExistingWalls(startPoint, currentPoint, segments)

\* C18: a click in drawing mode with no session open starts one: start and
\* current are the snapped point, blocked is false, previewAngle is absent,
\* the selection is clear, and the WallSet and both stacks are as before; a
\* click or move with drawing mode off changes nothing.
C18_ClickBeginsSession ==
    [][\A ray \in JunctionRays :
        /\ (isDrawingMode /\ ~isDrawing /\ handleClick(ray)) =>
                /\ isDrawing'
                /\ startPoint' = SnappedPoint(ray)
                /\ currentPoint' = SnappedPoint(ray)
                /\ ~previewBlocked'
                /\ previewAngle' = Null
                /\ selectedId' = NoId
                /\ UNCHANGED <<isDrawingMode, segments, history, redoStack>>
        /\ (~isDrawingMode /\ (handleClick(ray) \/ handlePointerMove(ray))) =>
                UNCHANGED <<cad, session, uuids>>]_allvars

\* A click has just opened a session over a non-empty WallSet, which is as it
\* was.
C18_Witness ==
    /\ lastEvent.did = "begin"
    /\ isDrawing
    /\ startPoint = lastEvent.p
    /\ currentPoint = lastEvent.p
    /\ ~previewBlocked
    /\ segments # <<>>
    /\ segments = lastEvent.before.segments
    /\ history = lastEvent.before.history

\* C19: the selected id is absent or the id of a segment of the current
\* WallSet, and absent whenever drawing mode is on.
C19_SelectionValid ==
    /\ selectedId = NoId \/ selectedId \in Ids(segments)
    /\ isDrawingMode => selectedId = NoId

\* A delete has just removed the selected wall and cleared the selection,
\* with another wall left in the WallSet.
C19_Witness ==
    /\ lastEvent.did = "delete"
    /\ selectedId = NoId
    /\ segments # <<>>
    /\ Len(segments) = Len(lastEvent.before.segments) - 1

\* C20: the session is Drawing only in drawing mode and then start and current
\* are present; when it is Idle, start, current and previewAngle are absent
\* and blocked is false; previewBlocked is always the negation of
\* canPlaceWall.
C20_SessionShape ==
    /\ isDrawing => isDrawingMode /\ startPoint # Null /\ currentPoint # Null
    /\ ~isDrawing =>
            /\ startPoint = Null
            /\ currentPoint = Null
            /\ previewAngle = Null
            /\ ~previewBlocked
    /\ previewBlocked = ~canPlaceWall

\* A session is Drawing and blocked, with an angle shown, over a WallSet of
\* three walls or more.
C20_Witness ==
    /\ isDrawing
    /\ previewBlocked
    /\ ~canPlaceWall
    /\ previewAngle # Null
    /\ Len(segments) >= 3

====
